---- MODULE Spec2Model ----
(***************************************************************************)
(* Model of scripts/generate_model.py: the URL feature extractor           *)
(* (extract_features, calculate_entropy) and the logistic regression       *)
(* classifier (LogisticRegressionModel: __init__, predict, fit, to_json).  *)
(*                                                                         *)
(* Strings are sequences of one-character strings.  Features, weights and  *)
(* biases are fixed-point integers in units of 1/SCALE; the score z and    *)
(* the probabilities are in units of 1/MICRO, so that a product of a       *)
(* weight and a feature is exact.  exp is a decimal floating-point number  *)
(* and log2 is evaluated in units of 1/LOGONE.                             *)
(***************************************************************************)
EXTENDS Integers, Sequences, FiniteSets, TLC

VARIABLES
    \* extract_features and its caller
    url,         \* the URL string the caller has built
    ntok,        \* the number of tokens the URL was built from
    features,    \* the vector extract_features returned
    xstatus,     \* "building" | "returned"
    \* LogisticRegressionModel objects m and their caller
    weights,     \* weights[m]: self.weights, an array indexed from 0
    bias,        \* bias[m]: self.bias
    status,      \* status[m]: "none" | "created" | "fitting" | "fitted" |
                 \*            "raised" (fit left by an exception in its loop) |
                 \*            "rejected" (fit left by an exception at X.shape)
    fitX,        \* fitX[m]: the X of the current or last fit call on m
    fity,        \* fity[m]: its y
    epochs,      \* epochs[m]: its epochs
    lr,          \* lr[m]: its lr, a fraction <<numerator, denominator>>
    iter,        \* iter[m]: loop iterations of that call completed
    vec,         \* the caller's feature vector, passed to predict
    prob,        \* what predict returned, when it was the last call (else -1)
    verdict,     \* the caller's decision on prob, or how predict ended
    model_json,  \* the records to_json returned to the caller (at most one kept)
    prior        \* prior[m]: whether m held all-zero weights and a zero bias
                 \*           when its last fit was called ("zero" | "nonzero")

xvars == <<url, ntok, features, xstatus>>
framevars == <<fitX, fity, epochs, lr, iter>>
callervars == <<vec, prob, verdict, model_json>>
mvars == <<weights, bias, status, framevars, callervars>>
vars == <<xvars, mvars, prior>>

\* ------------------------------------------------------------------ bounds

\* URLs are built from at most MaxTok tokens of Tokens.
MaxTok == 3
\* fit is called with epochs in 0..MaxEpochs.
MaxEpochs == 2

\* ------------------------------------------------------- fixed-point reals

\* One unit of a feature, a weight or a bias is 1/SCALE.
SCALE == 1000
\* One unit of a score z or of a probability is 1/MICRO (MICRO = SCALE^2).
MICRO == 1000000
\* log2 is evaluated in units of 1/LOGONE (2^14).
LOGONE == 16384
\* Number of fraction bits produced by Log2Frac (LOGONE = 2^LOGBITS).
LOGBITS == 14
\* Number of Taylor terms summed by ExpSeries at most.
EXPTERMS == 40
\* ln(10) = 2.302585093: its first six decimals in units of 1/MICRO, and
\* the next three in units of 1/(SCALE * MICRO).
LN10 == 2302585
LN10_LOW == 93
\* np.exp(x) is inf for every double x above 709.782712893...
EXP_MAX == 709782712
\* ... and 0.0 for every double x below -745.133219101...
EXP_MIN == -745133219

Abs(a) == IF a < 0 THEN -a ELSE a

Min2(a, b) == IF a < b THEN a ELSE b

Max2(a, b) == IF a > b THEN a ELSE b

\* a / b rounded to the nearest integer (b > 0), halves away from zero.
RDiv(a, b) == IF a >= 0 THEN (a + b \div 2) \div b
              ELSE -(((-a) + b \div 2) \div b)

\* a * b / c truncated toward zero, without forming a * b (c > 0).
MulDiv(a, b, c) ==
    LET s == IF (a < 0) = (b < 0) THEN 1 ELSE -1
        aa == Abs(a)
        bb == Abs(b)
        q == aa \div c
        r == aa % c
    IN s * (q * bb + (r * bb) \div c)

\* --------------------------------------------------------- string helpers

\* Characters of a Python string literal, one per element.
HTTPS == <<"h", "t", "t", "p", "s", ":", "/", "/">>
HTTP == <<"h", "t", "t", "p", ":", "/", "/">>

\* A character outside ASCII is written as the name of its code point, a
\* one-element string such as "U+0663" (ARABIC-INDIC DIGIT THREE).

AsciiDigits == {"0", "1", "2", "3", "4", "5", "6", "7", "8", "9"}

\* The characters of Unicode category Nd (decimal digit) outside ASCII,
\* as of Unicode 14.0 (the unicodedata of Python 3.11).
NonAsciiDecimalDigits == {
    "U+0660", "U+0661", "U+0662", "U+0663", "U+0664", "U+0665", "U+0666", "U+0667", "U+0668", "U+0669",
    "U+06F0", "U+06F1", "U+06F2", "U+06F3", "U+06F4", "U+06F5", "U+06F6", "U+06F7", "U+06F8", "U+06F9",
    "U+07C0", "U+07C1", "U+07C2", "U+07C3", "U+07C4", "U+07C5", "U+07C6", "U+07C7", "U+07C8", "U+07C9",
    "U+0966", "U+0967", "U+0968", "U+0969", "U+096A", "U+096B", "U+096C", "U+096D", "U+096E", "U+096F",
    "U+09E6", "U+09E7", "U+09E8", "U+09E9", "U+09EA", "U+09EB", "U+09EC", "U+09ED", "U+09EE", "U+09EF",
    "U+0A66", "U+0A67", "U+0A68", "U+0A69", "U+0A6A", "U+0A6B", "U+0A6C", "U+0A6D", "U+0A6E", "U+0A6F",
    "U+0AE6", "U+0AE7", "U+0AE8", "U+0AE9", "U+0AEA", "U+0AEB", "U+0AEC", "U+0AED", "U+0AEE", "U+0AEF",
    "U+0B66", "U+0B67", "U+0B68", "U+0B69", "U+0B6A", "U+0B6B", "U+0B6C", "U+0B6D", "U+0B6E", "U+0B6F",
    "U+0BE6", "U+0BE7", "U+0BE8", "U+0BE9", "U+0BEA", "U+0BEB", "U+0BEC", "U+0BED", "U+0BEE", "U+0BEF",
    "U+0C66", "U+0C67", "U+0C68", "U+0C69", "U+0C6A", "U+0C6B", "U+0C6C", "U+0C6D", "U+0C6E", "U+0C6F",
    "U+0CE6", "U+0CE7", "U+0CE8", "U+0CE9", "U+0CEA", "U+0CEB", "U+0CEC", "U+0CED", "U+0CEE", "U+0CEF",
    "U+0D66", "U+0D67", "U+0D68", "U+0D69", "U+0D6A", "U+0D6B", "U+0D6C", "U+0D6D", "U+0D6E", "U+0D6F",
    "U+0DE6", "U+0DE7", "U+0DE8", "U+0DE9", "U+0DEA", "U+0DEB", "U+0DEC", "U+0DED", "U+0DEE", "U+0DEF",
    "U+0E50", "U+0E51", "U+0E52", "U+0E53", "U+0E54", "U+0E55", "U+0E56", "U+0E57", "U+0E58", "U+0E59",
    "U+0ED0", "U+0ED1", "U+0ED2", "U+0ED3", "U+0ED4", "U+0ED5", "U+0ED6", "U+0ED7", "U+0ED8", "U+0ED9",
    "U+0F20", "U+0F21", "U+0F22", "U+0F23", "U+0F24", "U+0F25", "U+0F26", "U+0F27", "U+0F28", "U+0F29",
    "U+1040", "U+1041", "U+1042", "U+1043", "U+1044", "U+1045", "U+1046", "U+1047", "U+1048", "U+1049",
    "U+1090", "U+1091", "U+1092", "U+1093", "U+1094", "U+1095", "U+1096", "U+1097", "U+1098", "U+1099",
    "U+17E0", "U+17E1", "U+17E2", "U+17E3", "U+17E4", "U+17E5", "U+17E6", "U+17E7", "U+17E8", "U+17E9",
    "U+1810", "U+1811", "U+1812", "U+1813", "U+1814", "U+1815", "U+1816", "U+1817", "U+1818", "U+1819",
    "U+1946", "U+1947", "U+1948", "U+1949", "U+194A", "U+194B", "U+194C", "U+194D", "U+194E", "U+194F",
    "U+19D0", "U+19D1", "U+19D2", "U+19D3", "U+19D4", "U+19D5", "U+19D6", "U+19D7", "U+19D8", "U+19D9",
    "U+1A80", "U+1A81", "U+1A82", "U+1A83", "U+1A84", "U+1A85", "U+1A86", "U+1A87", "U+1A88", "U+1A89",
    "U+1A90", "U+1A91", "U+1A92", "U+1A93", "U+1A94", "U+1A95", "U+1A96", "U+1A97", "U+1A98", "U+1A99",
    "U+1B50", "U+1B51", "U+1B52", "U+1B53", "U+1B54", "U+1B55", "U+1B56", "U+1B57", "U+1B58", "U+1B59",
    "U+1BB0", "U+1BB1", "U+1BB2", "U+1BB3", "U+1BB4", "U+1BB5", "U+1BB6", "U+1BB7", "U+1BB8", "U+1BB9",
    "U+1C40", "U+1C41", "U+1C42", "U+1C43", "U+1C44", "U+1C45", "U+1C46", "U+1C47", "U+1C48", "U+1C49",
    "U+1C50", "U+1C51", "U+1C52", "U+1C53", "U+1C54", "U+1C55", "U+1C56", "U+1C57", "U+1C58", "U+1C59",
    "U+A620", "U+A621", "U+A622", "U+A623", "U+A624", "U+A625", "U+A626", "U+A627", "U+A628", "U+A629",
    "U+A8D0", "U+A8D1", "U+A8D2", "U+A8D3", "U+A8D4", "U+A8D5", "U+A8D6", "U+A8D7", "U+A8D8", "U+A8D9",
    "U+A900", "U+A901", "U+A902", "U+A903", "U+A904", "U+A905", "U+A906", "U+A907", "U+A908", "U+A909",
    "U+A9D0", "U+A9D1", "U+A9D2", "U+A9D3", "U+A9D4", "U+A9D5", "U+A9D6", "U+A9D7", "U+A9D8", "U+A9D9",
    "U+A9F0", "U+A9F1", "U+A9F2", "U+A9F3", "U+A9F4", "U+A9F5", "U+A9F6", "U+A9F7", "U+A9F8", "U+A9F9",
    "U+AA50", "U+AA51", "U+AA52", "U+AA53", "U+AA54", "U+AA55", "U+AA56", "U+AA57", "U+AA58", "U+AA59",
    "U+ABF0", "U+ABF1", "U+ABF2", "U+ABF3", "U+ABF4", "U+ABF5", "U+ABF6", "U+ABF7", "U+ABF8", "U+ABF9",
    "U+FF10", "U+FF11", "U+FF12", "U+FF13", "U+FF14", "U+FF15", "U+FF16", "U+FF17", "U+FF18", "U+FF19",
    "U+104A0", "U+104A1", "U+104A2", "U+104A3", "U+104A4", "U+104A5", "U+104A6", "U+104A7", "U+104A8", "U+104A9",
    "U+10D30", "U+10D31", "U+10D32", "U+10D33", "U+10D34", "U+10D35", "U+10D36", "U+10D37", "U+10D38", "U+10D39",
    "U+11066", "U+11067", "U+11068", "U+11069", "U+1106A", "U+1106B", "U+1106C", "U+1106D", "U+1106E", "U+1106F",
    "U+110F0", "U+110F1", "U+110F2", "U+110F3", "U+110F4", "U+110F5", "U+110F6", "U+110F7", "U+110F8", "U+110F9",
    "U+11136", "U+11137", "U+11138", "U+11139", "U+1113A", "U+1113B", "U+1113C", "U+1113D", "U+1113E", "U+1113F",
    "U+111D0", "U+111D1", "U+111D2", "U+111D3", "U+111D4", "U+111D5", "U+111D6", "U+111D7", "U+111D8", "U+111D9",
    "U+112F0", "U+112F1", "U+112F2", "U+112F3", "U+112F4", "U+112F5", "U+112F6", "U+112F7", "U+112F8", "U+112F9",
    "U+11450", "U+11451", "U+11452", "U+11453", "U+11454", "U+11455", "U+11456", "U+11457", "U+11458", "U+11459",
    "U+114D0", "U+114D1", "U+114D2", "U+114D3", "U+114D4", "U+114D5", "U+114D6", "U+114D7", "U+114D8", "U+114D9",
    "U+11650", "U+11651", "U+11652", "U+11653", "U+11654", "U+11655", "U+11656", "U+11657", "U+11658", "U+11659",
    "U+116C0", "U+116C1", "U+116C2", "U+116C3", "U+116C4", "U+116C5", "U+116C6", "U+116C7", "U+116C8", "U+116C9",
    "U+11730", "U+11731", "U+11732", "U+11733", "U+11734", "U+11735", "U+11736", "U+11737", "U+11738", "U+11739",
    "U+118E0", "U+118E1", "U+118E2", "U+118E3", "U+118E4", "U+118E5", "U+118E6", "U+118E7", "U+118E8", "U+118E9",
    "U+11950", "U+11951", "U+11952", "U+11953", "U+11954", "U+11955", "U+11956", "U+11957", "U+11958", "U+11959",
    "U+11C50", "U+11C51", "U+11C52", "U+11C53", "U+11C54", "U+11C55", "U+11C56", "U+11C57", "U+11C58", "U+11C59",
    "U+11D50", "U+11D51", "U+11D52", "U+11D53", "U+11D54", "U+11D55", "U+11D56", "U+11D57", "U+11D58", "U+11D59",
    "U+11DA0", "U+11DA1", "U+11DA2", "U+11DA3", "U+11DA4", "U+11DA5", "U+11DA6", "U+11DA7", "U+11DA8", "U+11DA9",
    "U+16A60", "U+16A61", "U+16A62", "U+16A63", "U+16A64", "U+16A65", "U+16A66", "U+16A67", "U+16A68", "U+16A69",
    "U+16AC0", "U+16AC1", "U+16AC2", "U+16AC3", "U+16AC4", "U+16AC5", "U+16AC6", "U+16AC7", "U+16AC8", "U+16AC9",
    "U+16B50", "U+16B51", "U+16B52", "U+16B53", "U+16B54", "U+16B55", "U+16B56", "U+16B57", "U+16B58", "U+16B59",
    "U+1D7CE", "U+1D7CF", "U+1D7D0", "U+1D7D1", "U+1D7D2", "U+1D7D3", "U+1D7D4", "U+1D7D5", "U+1D7D6", "U+1D7D7",
    "U+1D7D8", "U+1D7D9", "U+1D7DA", "U+1D7DB", "U+1D7DC", "U+1D7DD", "U+1D7DE", "U+1D7DF", "U+1D7E0", "U+1D7E1",
    "U+1D7E2", "U+1D7E3", "U+1D7E4", "U+1D7E5", "U+1D7E6", "U+1D7E7", "U+1D7E8", "U+1D7E9", "U+1D7EA", "U+1D7EB",
    "U+1D7EC", "U+1D7ED", "U+1D7EE", "U+1D7EF", "U+1D7F0", "U+1D7F1", "U+1D7F2", "U+1D7F3", "U+1D7F4", "U+1D7F5",
    "U+1D7F6", "U+1D7F7", "U+1D7F8", "U+1D7F9", "U+1D7FA", "U+1D7FB", "U+1D7FC", "U+1D7FD", "U+1D7FE", "U+1D7FF",
    "U+1E140", "U+1E141", "U+1E142", "U+1E143", "U+1E144", "U+1E145", "U+1E146", "U+1E147", "U+1E148", "U+1E149",
    "U+1E2F0", "U+1E2F1", "U+1E2F2", "U+1E2F3", "U+1E2F4", "U+1E2F5", "U+1E2F6", "U+1E2F7", "U+1E2F8", "U+1E2F9",
    "U+1E950", "U+1E951", "U+1E952", "U+1E953", "U+1E954", "U+1E955", "U+1E956", "U+1E957", "U+1E958", "U+1E959",
    "U+1FBF0", "U+1FBF1", "U+1FBF2", "U+1FBF3", "U+1FBF4", "U+1FBF5", "U+1FBF6", "U+1FBF7", "U+1FBF8", "U+1FBF9" }

\* The characters str.isdigit accepts that are not of category Nd:
\* superscripts, subscripts, circled and other digit forms.
OtherDigitChars == {
    "U+00B2", "U+00B3", "U+00B9", "U+1369", "U+136A", "U+136B", "U+136C", "U+136D",
    "U+136E", "U+136F", "U+1370", "U+1371", "U+19DA", "U+2070", "U+2074", "U+2075",
    "U+2076", "U+2077", "U+2078", "U+2079", "U+2080", "U+2081", "U+2082", "U+2083",
    "U+2084", "U+2085", "U+2086", "U+2087", "U+2088", "U+2089", "U+2460", "U+2461",
    "U+2462", "U+2463", "U+2464", "U+2465", "U+2466", "U+2467", "U+2468", "U+2474",
    "U+2475", "U+2476", "U+2477", "U+2478", "U+2479", "U+247A", "U+247B", "U+247C",
    "U+2488", "U+2489", "U+248A", "U+248B", "U+248C", "U+248D", "U+248E", "U+248F",
    "U+2490", "U+24EA", "U+24F5", "U+24F6", "U+24F7", "U+24F8", "U+24F9", "U+24FA",
    "U+24FB", "U+24FC", "U+24FD", "U+24FF", "U+2776", "U+2777", "U+2778", "U+2779",
    "U+277A", "U+277B", "U+277C", "U+277D", "U+277E", "U+2780", "U+2781", "U+2782",
    "U+2783", "U+2784", "U+2785", "U+2786", "U+2787", "U+2788", "U+278A", "U+278B",
    "U+278C", "U+278D", "U+278E", "U+278F", "U+2790", "U+2791", "U+2792", "U+10A40",
    "U+10A41", "U+10A42", "U+10A43", "U+10E60", "U+10E61", "U+10E62", "U+10E63", "U+10E64",
    "U+10E65", "U+10E66", "U+10E67", "U+10E68", "U+11052", "U+11053", "U+11054", "U+11055",
    "U+11056", "U+11057", "U+11058", "U+11059", "U+1105A", "U+1F100", "U+1F101", "U+1F102",
    "U+1F103", "U+1F104", "U+1F105", "U+1F106", "U+1F107", "U+1F108", "U+1F109", "U+1F10A" }

\* What \d of a str pattern matches: every Unicode decimal digit.
DecimalDigits == AsciiDigits \cup NonAsciiDecimalDigits

\* The characters c for which c.isdigit() is True.
DigitChars == DecimalDigits \cup OtherDigitChars

\* s[i:] of Python, for 0-based i in 0..Len(s).
Drop(s, i) == SubSeq(s, i + 1, Len(s))

\* s[:i] of Python, for 0-based i in 0..Len(s).
Take(s, i) == SubSeq(s, 1, i)

\* str.startswith
StartsWith(s, p) == Len(s) >= Len(p) /\ SubSeq(s, 1, Len(p)) = p

\* str.count of a single character
RECURSIVE Count(_, _)
Count(s, c) == IF s = <<>> THEN 0
               ELSE (IF Head(s) = c THEN 1 ELSE 0) + Count(Tail(s), c)

\* `c in s` for a single character
HasChar(s, c) == \E i \in 1..Len(s) : s[i] = c

\* str.find of a single character: the 0-based index of the first c, -1 if none.
Find(s, c) == IF HasChar(s, c)
              THEN (CHOOSE i \in 1..Len(s) :
                       s[i] = c /\ \A j \in 1..(i - 1) : s[j] # c) - 1
              ELSE -1

\* The 0-based index of the last c, -1 if none.
RFind(s, c) == IF HasChar(s, c)
               THEN (CHOOSE i \in 1..Len(s) :
                        s[i] = c /\ \A j \in (i + 1)..Len(s) : s[j] # c) - 1
               ELSE -1

\* `p in s` for a non-empty substring p
Contains(s, p) == \E i \in 0..(Len(s) - Len(p)) : SubSeq(s, i + 1, i + Len(p)) = p

\* str.replace(old, ""): every non-overlapping occurrence of old, found
\* scanning left to right, is removed; the result is not scanned again.
RECURSIVE Remove(_, _)
Remove(s, old) ==
    IF s = <<>> THEN <<>>
    ELSE IF StartsWith(s, old) THEN Remove(Drop(s, Len(old)), old)
    ELSE <<Head(s)>> \o Remove(Tail(s), old)

\* s.split(c)[0]: the text before the first c, all of s if there is none.
SplitFirst(s, c) == IF HasChar(s, c) THEN Take(s, Find(s, c)) ELSE s

\* s.split(c)[-1]: the text after the last c, all of s if there is none.
SplitLast(s, c) == IF HasChar(s, c) THEN Drop(s, RFind(s, c) + 1) ELSE s

\* str.isdigit: non-empty and every character a digit character.
IsDigit(s) == s # <<>> /\ \A i \in 1..Len(s) : s[i] \in DigitChars

\* ------------------------------------------------------------ log2 and exp

\* floor(log2(n)) for an integer n >= 1.
RECURSIVE FloorLog2(_)
FloorLog2(n) == IF n < 2 THEN 0 ELSE 1 + FloorLog2(n \div 2)

RECURSIVE Pow2(_)
Pow2(k) == IF k = 0 THEN 1 ELSE 2 * Pow2(k - 1)

\* The fraction bits of log2(x / LOGONE) for LOGONE <= x < 2 * LOGONE, by
\* repeated squaring: `bits` more bits, `acc` the bits found so far.
RECURSIVE Log2Frac(_, _, _)
Log2Frac(x, bits, acc) ==
    IF bits = 0 THEN acc
    ELSE LET sq == (x * x) \div LOGONE
         IN IF sq >= 2 * LOGONE
            THEN Log2Frac(sq \div 2, bits - 1, 2 * acc + 1)
            ELSE Log2Frac(sq, bits - 1, 2 * acc)

\* log2(n) for an integer n >= 1, in units of 1/LOGONE.
Log2Int(n) ==
    LET k == FloorLog2(n)
    IN k * LOGONE + Log2Frac((n * LOGONE) \div Pow2(k), LOGBITS, 0)

\* math.log2(count / length), in units of 1/LOGONE.
log2(count, length) == Log2Int(count) - Log2Int(length)

RECURSIVE Pow10(_)
Pow10(k) == IF k = 0 THEN 1 ELSE 10 * Pow10(k - 1)

\* floor(n * 10^p / d) for n >= 0, p >= 0, d > 0, by long division.
RECURSIVE LongDiv(_, _, _)
LongDiv(n, p, d) ==
    IF p = 0 THEN n \div d
    ELSE (n \div d) * Pow10(p) + LongDiv((n % d) * 10, p - 1, d)

\* t * r / MICRO, truncated, for t and r in units of 1/MICRO.
MulMicro(t, r) ==
    LET rh == MulDiv(r, 1, SCALE)
        rl == r - rh * SCALE
    IN MulDiv(t, rh, SCALE) + MulDiv(t, rl, MICRO)

\* The Taylor series of exp(r): term n and the following ones, in units
\* of 1/MICRO, for an argument r in units of 1/MICRO.
RECURSIVE ExpTerms(_, _, _)
ExpTerms(r, n, term) ==
    IF n > EXPTERMS \/ term = 0 THEN 0
    ELSE term + ExpTerms(r, n + 1, MulDiv(MulMicro(term, r), 1, n))

\* exp(r) for |r| <= ln(10), in units of 1/MICRO.
ExpSeries(r) == ExpTerms(r, 1, MICRO)

\* np.exp(x) for x in units of 1/MICRO: inf, or the number
\* mant * 10^exp10 / MICRO.  x is reduced to r = x - exp10 * ln(10) with
\* |r| <= ln(10) / 2, so mant lies between 0.316 and 3.163 MICRO; the
\* result is 0.0 (mant = 0) below EXP_MIN and inf above EXP_MAX.
exp(x) ==
    IF x > EXP_MAX THEN [inf |-> TRUE, mant |-> 0, exp10 |-> 0]
    ELSE IF x < EXP_MIN THEN [inf |-> FALSE, mant |-> 0, exp10 |-> 0]
    ELSE LET k == RDiv(x, LN10)
             r == x - k * LN10 - MulDiv(k, LN10_LOW, SCALE)
         IN [inf |-> FALSE, mant |-> ExpSeries(r), exp10 |-> k]

\* --------------------------------------------------- calculate_entropy

\* The `freq` dictionary: the distinct characters of text.
Chars(text) == {text[i] : i \in 1..Len(text)}

\* The sum over freq.values() of p * log2(p), p = count / length, in units
\* of 1/LOGONE.
RECURSIVE EntropySum(_, _)
EntropySum(text, chars) ==
    IF chars = {} THEN 0
    ELSE LET ch == CHOOSE c \in chars : TRUE
             count == Count(text, ch)
         IN MulDiv(count, log2(count, Len(text)), Len(text))
            + EntropySum(text, chars \ {ch})

\* calculate_entropy(text): the Shannon entropy, in units of 1/MICRO.
calculate_entropy(text) ==
    IF text = <<>> THEN 0
    ELSE MulDiv(MICRO, 0 - EntropySum(text, Chars(text)), LOGONE)

\* -------------------------------------------------------- extract_features

\* re.match(ip_pattern, s), with \d{1,3} groups left to match: `groups`.
\* A group is a maximal run of 1 to 3 decimal digits of any script; groups
\* are joined by one "."
\* and "$" matches at the end of s or before a final newline.
DigitRun(s) == IF \E i \in 1..Len(s) : s[i] \notin DecimalDigits
               THEN (CHOOSE i \in 1..Len(s) :
                        s[i] \notin DecimalDigits
                        /\ \A j \in 1..(i - 1) : s[j] \in DecimalDigits) - 1
               ELSE Len(s)

RECURSIVE MatchGroups(_, _)
MatchGroups(s, groups) ==
    LET r == DigitRun(s)
        rest == Drop(s, r)
    IN /\ r >= 1
       /\ r <= 3
       /\ IF groups = 1
          THEN rest = <<>> \/ rest = <<"\n">>
          ELSE /\ rest # <<>>
               /\ Head(rest) = "."
               /\ MatchGroups(Tail(rest), groups - 1)

ip_pattern(s) == MatchGroups(s, 4)

shorteners == { <<"b", "i", "t", ".", "l", "y">>,
                <<"t", "i", "n", "y", "u", "r", "l", ".", "c", "o", "m">>,
                <<"t", ".", "c", "o">>,
                <<"g", "o", "o", ".", "g", "l">>,
                <<"o", "w", ".", "l", "y">> }

suspicious_tlds == { <<"t", "k">>, <<"m", "l">>, <<"g", "a">>, <<"c", "f">>,
                     <<"g", "q">>, <<"x", "y", "z">>, <<"i", "c", "u">>,
                     <<"t", "o", "p">> }

protocol(u) == IF StartsWith(u, HTTPS) THEN "https" ELSE "http"

clean_url(u) == Remove(Remove(u, HTTPS), HTTP)

host_end(u) ==
    LET c == clean_url(u)
    IN Min2(IF HasChar(c, "/") THEN Find(c, "/") ELSE Len(c),
            IF HasChar(c, "?") THEN Find(c, "?") ELSE Len(c))

host(u) == Take(clean_url(u), host_end(u))

path_and_query(u) == Drop(clean_url(u), host_end(u))

path(u) == LET pq == path_and_query(u)
           IN IF HasChar(pq, "?") THEN SplitFirst(pq, "?") ELSE pq

\* Clamp with the min(., 1.0) left out.
ClampNone(raw) == raw

\* min(count / denom, 1.0), in units of 1/SCALE.
Clamp(raw) == Min2(raw, SCALE)

Ratio(count, denom) == Clamp(RDiv(count * SCALE, denom))

Flag(b) == IF b THEN SCALE ELSE 0

subdomain_count(u) == Max2(Count(host(u), ".") - 1, 0)

query_count(u) == Count(path_and_query(u), "&")
                  + (IF HasChar(path_and_query(u), "?") THEN 1 ELSE 0)

has_port(u) == HasChar(host(u), ":") /\ IsDigit(SplitLast(host(u), ":"))

tld(u) == IF HasChar(host(u), ".") THEN SplitLast(host(u), ".") ELSE <<>>

\* features[5] with the pattern matched against the whole host.
has_ip_host_whole(u) == Flag(ip_pattern(host(u)))

\* features[5]
has_ip_host(u) == Flag(ip_pattern(SplitFirst(host(u), ":")))

extract_features(u) ==
    [i \in 0..14 |->
        CASE i = 0 -> Ratio(Len(u), 500)
          [] i = 1 -> Ratio(Len(host(u)), 100)
          [] i = 2 -> Ratio(Len(path(u)), 200)
          [] i = 3 -> Ratio(subdomain_count(u), 5)
          [] i = 4 -> Flag(protocol(u) = "https")
          [] i = 5 -> has_ip_host(u)
          [] i = 6 -> Clamp(RDiv(calculate_entropy(host(u)), 5 * (MICRO \div SCALE)))
          [] i = 7 -> Clamp(RDiv(calculate_entropy(path(u)), 5 * (MICRO \div SCALE)))
          [] i = 8 -> Ratio(query_count(u), 10)
          [] i = 9 -> Flag(HasChar(u, "@"))
          [] i = 10 -> Ratio(Count(u, "."), 10)
          [] i = 11 -> Ratio(Count(u, "-"), 10)
          [] i = 12 -> Flag(has_port(u))
          [] i = 13 -> Flag(\E s \in shorteners : Contains(host(u), s))
          [] i = 14 -> Flag(tld(u) \in suspicious_tlds)]

\* ------------------------------------------------- the extractor's caller

\* The URLs the script itself extracts: the patterns of
\* generate_synthetic_dataset and the test URLs of main.
safe_patterns == {
    <<"h", "t", "t", "p", "s", ":", "/", "/", "w", "w", "w", ".", "g", "o",
      "o", "g", "l", "e", ".", "c", "o", "m", "/", "s", "e", "a", "r", "c",
      "h", "?", "q", "=", "t", "e", "s", "t">>,
    <<"h", "t", "t", "p", "s", ":", "/", "/", "g", "i", "t", "h", "u", "b",
      ".", "c", "o", "m", "/", "u", "s", "e", "r", "/", "r", "e", "p", "o">>,
    <<"h", "t", "t", "p", "s", ":", "/", "/", "w", "w", "w", ".", "a", "m",
      "a", "z", "o", "n", ".", "c", "o", "m", "/", "d", "p", "/", "B", "0",
      "8", "A", "B", "C", "1", "2", "3">>,
    <<"h", "t", "t", "p", "s", ":", "/", "/", "s", "t", "a", "c", "k", "o",
      "v", "e", "r", "f", "l", "o", "w", ".", "c", "o", "m", "/", "q", "u",
      "e", "s", "t", "i", "o", "n", "s", "/", "1", "2", "3">>,
    <<"h", "t", "t", "p", "s", ":", "/", "/", "e", "n", ".", "w", "i", "k",
      "i", "p", "e", "d", "i", "a", ".", "o", "r", "g", "/", "w", "i", "k",
      "i", "/", "P", "y", "t", "h", "o", "n">> }

phishing_patterns == {
    <<"h", "t", "t", "p", ":", "/", "/", "1", "9", "2", ".", "1", "6", "8",
      ".", "1", ".", "1", "/", "l", "o", "g", "i", "n", ".", "p", "h", "p">>,
    <<"h", "t", "t", "p", "s", ":", "/", "/", "p", "a", "y", "p", "a", "1",
      "-", "s", "e", "c", "u", "r", "e", ".", "t", "k", "/", "v", "e", "r",
      "i", "f", "y">>,
    <<"h", "t", "t", "p", ":", "/", "/", "a", "m", "a", "z", "0", "n", ".",
      "m", "l", "/", "t", "r", "a", "c", "k", "i", "n", "g">>,
    <<"h", "t", "t", "p", "s", ":", "/", "/", "s", "e", "c", "u", "r", "e",
      ".", "b", "a", "n", "k", ".", "c", "o", "m", ".", "e", "v", "i", "l",
      ".", "g", "a", "/", "l", "o", "g", "i", "n">>,
    <<"h", "t", "t", "p", ":", "/", "/", "b", "i", "t", ".", "l", "y", "/",
      "x", "3", "Y", "z", "1", "2", "3">> }

test_urls == {
    <<"h", "t", "t", "p", "s", ":", "/", "/", "w", "w", "w", ".", "g", "o",
      "o", "g", "l", "e", ".", "c", "o", "m">>,
    <<"h", "t", "t", "p", ":", "/", "/", "p", "a", "y", "p", "a", "1", "-",
      "s", "e", "c", "u", "r", "e", ".", "t", "k", "/", "l", "o", "g", "i",
      "n">>,
    <<"h", "t", "t", "p", "s", ":", "/", "/", "b", "i", "t", ".", "l", "y",
      "/", "a", "b", "c", "1", "2", "3">> }

ScriptUrls == safe_patterns \cup phishing_patterns \cup test_urls

\* 36 distinct characters: a label whose entropy exceeds 5 bits.
Alnum == <<"a", "b", "c", "d", "e", "f", "g", "h", "i", "j", "k", "l", "m",
           "n", "o", "p", "q", "r", "s", "t", "u", "v", "w", "x", "y", "z",
           "0", "1", "2", "3", "4", "5", "6", "7", "8", "9">>

\* The pieces any other URL a caller passes is made of: the schemes, a
\* dotted quad, an ASCII digit, a decimal digit outside ASCII (ARABIC-INDIC
\* DIGIT THREE), a digit character that is no decimal digit (SUPERSCRIPT
\* TWO), the separators, a letter, a newline, a suspicious TLD, a
\* shortener.
Tokens == { HTTP, HTTPS,
            <<"1", ".", "1", ".", "1", ".", "1">>,
            <<"1">>, <<"U+0663">>, <<"U+00B2">>,
            <<":">>, <<"/">>, <<"?">>, <<"&">>, <<"@">>, <<"-">>,
            <<"a">>, <<"\n">>,
            <<".", "t", "k">>,
            <<"b", "i", "t", ".", "l", "y">> }

\* No model exists while URLs are extracted.
NoModel == /\ weights = <<>>
           /\ bias = 0
           /\ status = "none"
           /\ fitX = <<>>
           /\ fity = <<>>
           /\ epochs = 0
           /\ lr = <<0, 1>>
           /\ iter = 0
           /\ vec = <<>>
           /\ prob = -1
           /\ verdict = "none"
           /\ model_json = <<>>
           /\ prior = <<>>

\* The caller starts from the empty string, or from one of the script's
\* URLs or the long label, to which it may append one token.
InitExtract == /\ \/ url = <<>> /\ ntok = 0
                  \/ url \in ScriptUrls \cup {Alnum} /\ ntok = MaxTok - 1
               /\ features = <<>>
               /\ xstatus = "building"
               /\ NoModel

\* The caller extends the URL it is about to pass.
AppendToken(t) == /\ xstatus = "building"
                  /\ ntok < MaxTok
                  /\ url' = url \o t
                  /\ ntok' = ntok + 1
                  /\ UNCHANGED <<features, xstatus, mvars, prior>>

\* features = extract_features(url)
Extract == /\ xstatus = "building"
           /\ features' = extract_features(url)
           /\ xstatus' = "returned"
           /\ UNCHANGED <<url, ntok, mvars, prior>>

NextExtract == (\E t \in Tokens : AppendToken(t)) \/ Extract

SpecExtract == InitExtract /\ [][NextExtract]_vars

\* ------------------------------------------------------------ numpy arrays

\* A 1-D array is a function on 0..n-1; len(a).
Size(a) == Cardinality(DOMAIN a)

\* np.zeros(n)
Zeros(n) == [i \in 0..(n - 1) |-> 0]

\* An array filled with v.
Full(n, v) == [i \in 0..(n - 1) |-> v]

\* The sum of a[0..n-1].
RECURSIVE SumN(_, _)
SumN(a, n) == IF n = 0 THEN 0 ELSE a[n - 1] + SumN(a, n - 1)

\* np.dot of two 1-D arrays of one length, both in units of 1/SCALE: the
\* exact sum of the products, in units of 1/MICRO.
Dot(a, b) == SumN([i \in DOMAIN a |-> a[i] * b[i]], Size(a))

\* X.shape: an array X is [ndim |-> 1 or 2, data |-> its elements or rows].
Shape(X) == IF X.ndim = 2 THEN <<Size(X.data), Size(X.data[0])>>
            ELSE <<Size(X.data)>>

\* ndarray.tolist(): a Python list, here a sequence indexed from 1.
ToList(a) == [i \in 1..Size(a) |-> a[i - 1]]

\* 1.0 / (1.0 + e) for a value e >= 1 of exp, in units of 1/MICRO and
\* rounded down; 1.0 / inf is 0.0.
Reciprocal(e) ==
    IF e.inf \/ e.exp10 > 6 THEN 0
    ELSE LongDiv(MICRO, 6 - e.exp10, Pow10(6 - e.exp10) + e.mant)

\* sigmoid(x) = 1.0 / (1.0 + np.exp(-x)), x and the result in units of
\* 1/MICRO.  For x > 0, where np.exp(-x) < 1, the quotient is evaluated as
\* 1 - 1 / (1 + np.exp(x)).  The result is rounded away from one half, so
\* it is MICRO / 2 only for x = 0, as that of the code.
sigmoid(x) == IF x <= 0 THEN Reciprocal(exp(0 - x))
              ELSE MICRO - Reciprocal(exp(x))

\* ------------------------------------------- LogisticRegressionModel

ModelIds == {1, 2}

\* No model is inside fit: calls do not overlap (one thread).
Idle == \A k \in ModelIds : status[k] # "fitting"

\* The object m has had no fit call.
NoFrame(m) == /\ fitX' = [fitX EXCEPT ![m] = <<>>]
              /\ fity' = [fity EXCEPT ![m] = <<>>]
              /\ epochs' = [epochs EXCEPT ![m] = 0]
              /\ lr' = [lr EXCEPT ![m] = <<0, 1>>]
              /\ iter' = [iter EXCEPT ![m] = 0]

\* The call just made was not predict.
NoResult == prob' = -1 /\ verdict' = "none"

\* __init__(self, weights, bias): w = <<>> stands for weights=None.
Construct(m, w, b) ==
    /\ Idle
    /\ weights' = [weights EXCEPT ![m] = IF w # <<>> THEN w ELSE Zeros(15)]
    /\ bias' = [bias EXCEPT ![m] = b]
    /\ status' = [status EXCEPT ![m] = "created"]
    /\ NoFrame(m)
    /\ NoResult
    /\ UNCHANGED <<vec, model_json>>

\* Decide with the threshold itself counted as phishing.
DecideInclusive(p) == IF p >= MICRO \div 2 THEN "PHISHING" ELSE "SAFE"

\* The caller's decision on a probability: "PHISHING" if prob > 0.5.
Decide(p) == IF p > MICRO \div 2 THEN "PHISHING" ELSE "SAFE"

\* z = np.dot(self.weights, features) + self.bias, in units of 1/MICRO.
Score(w, f, b) == Dot(w, f) + b * SCALE

\* predict accumulating z into self.bias.
PredictInPlace(m) ==
    /\ Idle
    /\ status[m] # "none"
    /\ vec # <<>>
    /\ IF Size(weights[m]) # Size(vec)
       THEN /\ prob' = -1
            /\ verdict' = "ValueError"
            /\ UNCHANGED bias
       ELSE LET z == Score(weights[m], vec, bias[m])
            IN /\ bias' = [bias EXCEPT ![m] = RDiv(z, SCALE)]
               /\ prob' = sigmoid(z)
               /\ verdict' = Decide(sigmoid(z))
    /\ UNCHANGED <<weights, status, framevars, vec, model_json>>

\* predict(self, features), called on the caller's vec, and the caller's
\* decision on what it returns.  np.dot raises ValueError when the two
\* lengths differ.
Predict(m) ==
    /\ Idle
    /\ status[m] # "none"
    /\ vec # <<>>
    /\ IF Size(weights[m]) # Size(vec)
       THEN /\ prob' = -1
            /\ verdict' = "ValueError"
       ELSE LET z == Score(weights[m], vec, bias[m])
            IN /\ prob' = sigmoid(z)
               /\ verdict' = Decide(sigmoid(z))
    /\ UNCHANGED <<weights, bias, status, framevars, vec, model_json>>

\* to_json(self)
ToJson(m) ==
    /\ Idle
    /\ status[m] # "none"
    /\ model_json' = << [weights |-> ToList(weights[m]), bias |-> bias[m]] >>
    /\ NoResult
    /\ UNCHANGED <<weights, bias, status, framevars, vec>>

\* fit keeping the parameters it finds when their number fits X.
FitBeginKeep(m, X, y, e, l) ==
    /\ Idle
    /\ status[m] # "none"
    /\ fitX' = [fitX EXCEPT ![m] = X]
    /\ fity' = [fity EXCEPT ![m] = y]
    /\ epochs' = [epochs EXCEPT ![m] = e]
    /\ lr' = [lr EXCEPT ![m] = l]
    /\ iter' = [iter EXCEPT ![m] = 0]
    /\ IF Len(Shape(X)) # 2
       THEN /\ status' = [status EXCEPT ![m] = "rejected"]
            /\ UNCHANGED <<weights, bias>>
       ELSE /\ status' = [status EXCEPT ![m] = "fitting"]
            /\ weights' = [weights EXCEPT ![m] =
                              IF Size(weights[m]) = Shape(X)[2] THEN weights[m]
                              ELSE Zeros(Shape(X)[2])]
            /\ UNCHANGED bias
    /\ NoResult
    /\ UNCHANGED <<vec, model_json>>

\* fit, lines 124-126: unpack X.shape (ValueError unless X is 2-D), then
\* reset the weights and the bias.
FitBegin(m, X, y, e, l) ==
    /\ Idle
    /\ status[m] # "none"
    /\ fitX' = [fitX EXCEPT ![m] = X]
    /\ fity' = [fity EXCEPT ![m] = y]
    /\ epochs' = [epochs EXCEPT ![m] = e]
    /\ lr' = [lr EXCEPT ![m] = l]
    /\ iter' = [iter EXCEPT ![m] = 0]
    /\ IF Len(Shape(X)) # 2
       THEN /\ status' = [status EXCEPT ![m] = "rejected"]
            /\ UNCHANGED <<weights, bias>>
       ELSE /\ status' = [status EXCEPT ![m] = "fitting"]
            /\ weights' = [weights EXCEPT ![m] = Zeros(Shape(X)[2])]
            /\ bias' = [bias EXCEPT ![m] = 0]
    /\ NoResult
    /\ UNCHANGED <<vec, model_json>>

\* predictions - y broadcasts when y has one element or as many as
\* predictions; np.dot(X.T, .) then needs one entry per row of X.
Broadcasts(n_samples, y) == Size(y) = n_samples \/ Size(y) = 1

\* y[i] after broadcasting.
Label(y, i) == IF Size(y) = 1 THEN y[0] ELSE y[i]

\* z = np.dot(X, self.weights) + self.bias; predictions = sigmoid(z)
\* An array with the same entries, each evaluated once.
RECURSIVE Eval(_, _)
Eval(a, n) == IF n = 0 THEN <<>> ELSE Eval(a, n - 1) @@ ((n - 1) :> a[n - 1])

\* z = np.dot(X, self.weights) + self.bias; predictions = sigmoid(z), in
\* units of 1/MICRO.
Forward(X, w, b) ==
    Eval([i \in DOMAIN X.data |-> sigmoid(Score(X.data[i], w, b))], Size(X.data))

\* predictions - y, in units of 1/MICRO.
Errors(predictions, y) ==
    Eval([i \in DOMAIN predictions |-> predictions[i] - MICRO * Label(y, i)],
         Size(predictions))

\* dw = (1 / n_samples) * np.dot(X.T, (predictions - y)), in units of
\* 1/MICRO.
GradW(X, err) ==
    LET n_samples == Shape(X)[1]
    IN [j \in 0..(Shape(X)[2] - 1) |->
          RDiv(SumN([i \in DOMAIN err |-> MulDiv(err[i], X.data[i][j], SCALE)],
                    n_samples),
               n_samples)]

\* db = (1 / n_samples) * np.sum(predictions - y), in units of 1/MICRO.
GradB(X, err) == RDiv(SumN(err, Shape(X)[1]), Shape(X)[1])

\* lr * g for lr = <<numerator, denominator>> and g in units of 1/MICRO,
\* in units of 1/SCALE.
Times(l, g) == RDiv(l[1] * g, l[2] * SCALE)

\* The loop body with the bias gradient taken after the weights are updated.
EpochStepSequential(X, y, w, b, l) ==
    LET dw == GradW(X, Errors(Forward(X, w, b), y))
        w2 == [j \in DOMAIN w |-> w[j] - Times(l, dw[j])]
        db == GradB(X, Errors(Forward(X, w2, b), y))
    IN [weights |-> w2, bias |-> b - Times(l, db)]

\* One pass of the loop body, lines 130-139: both gradients are computed
\* from the predictions of line 131, then weights and bias are updated.
EpochStep(X, y, w, b, l) ==
    LET predictions == Forward(X, w, b)
        err == Errors(predictions, y)
        dw == GradW(X, err)
        db == GradB(X, err)
    IN [weights |-> [j \in DOMAIN w |-> w[j] - Times(l, dw[j])],
        bias |-> b - Times(l, db)]

\* fit, lines 128-139: one iteration of `for _ in range(epochs)`.
FitEpoch(m) ==
    /\ status[m] = "fitting"
    /\ iter[m] < epochs[m]
    /\ IF Broadcasts(Shape(fitX[m])[1], fity[m])
       THEN LET new == EpochStep(fitX[m], fity[m], weights[m], bias[m], lr[m])
            IN /\ weights' = [weights EXCEPT ![m] = new.weights]
               /\ bias' = [bias EXCEPT ![m] = new.bias]
               /\ iter' = [iter EXCEPT ![m] = iter[m] + 1]
               /\ UNCHANGED status
       ELSE /\ status' = [status EXCEPT ![m] = "raised"]
            /\ UNCHANGED <<weights, bias, iter>>
    /\ UNCHANGED <<fitX, fity, epochs, lr, callervars>>

\* fit: range(epochs) is exhausted and fit returns.
FitReturn(m) ==
    /\ status[m] = "fitting"
    /\ iter[m] >= epochs[m]
    /\ status' = [status EXCEPT ![m] = "fitted"]
    /\ UNCHANGED <<weights, bias, framevars, callervars>>

\* ------------------------------------------------ the classifier's caller

\* Feature matrices: two samples of 15 features, two samples of 14
\* features, and a 1-D array.
X2x15 == [ndim |-> 2, data |-> [i \in 0..1 |-> Full(15, i * SCALE)]]
X2x14 == [ndim |-> 2, data |-> [i \in 0..1 |-> Full(14, i * SCALE)]]
X1d == [ndim |-> 1, data |-> Full(15, SCALE)]

Matrices == {X2x15, X2x14, X1d}

\* Label vectors of 2, 1 and 3 labels.
Labels == { [i \in 0..1 |-> i], [i \in 0..0 |-> 1], [i \in 0..2 |-> i % 2] }

\* lr = 0.5, as main passes it
Rates == { <<1, 2>> }

\* Weights a caller passes to __init__: None, 15 weights of -0.1, 14
\* weights of 0.1.
GivenWeights == { <<>>, Full(15, -100), Full(14, 100) }

\* Biases a caller passes to __init__: 0.0 and 0.001.
GivenBias == {0, 1}

\* Feature vectors a caller passes to predict.
Vectors == { Full(15, 0), [i \in 0..14 |-> (i * 70) % SCALE], Full(14, SCALE) }

NoUrl == /\ url = <<>>
         /\ ntok = 0
         /\ features = <<>>
         /\ xstatus = "none"

\* model = LogisticRegressionModel(): model 1 exists, model 2 does not.
Init == /\ NoUrl
        /\ weights = [m \in ModelIds |-> IF m = 1 THEN Zeros(15) ELSE <<>>]
        /\ bias = [m \in ModelIds |-> 0]
        /\ status = [m \in ModelIds |-> IF m = 1 THEN "created" ELSE "none"]
        /\ fitX = [m \in ModelIds |-> <<>>]
        /\ fity = [m \in ModelIds |-> <<>>]
        /\ epochs = [m \in ModelIds |-> 0]
        /\ lr = [m \in ModelIds |-> <<0, 1>>]
        /\ iter = [m \in ModelIds |-> 0]
        /\ vec = <<>>
        /\ prob = -1
        /\ verdict = "none"
        /\ model_json = <<>>
        /\ prior = <<>>

\* features = extract_features(url): the caller gets a vector to score.
SetVec(f) == /\ Idle
             /\ vec' = f
             /\ NoResult
             /\ UNCHANGED <<weights, bias, status, framevars, model_json>>

Next ==
    \/ \E w \in GivenWeights, b \in GivenBias :
          Construct(1, w, b) /\ UNCHANGED <<xvars, prior>>
    \/ \E f \in Vectors : SetVec(f) /\ UNCHANGED <<xvars, prior>>
    \/ Predict(1) /\ UNCHANGED <<xvars, prior>>
    \/ ToJson(1) /\ UNCHANGED <<xvars, prior>>
    \/ \E X \in Matrices, y \in Labels, e \in 0..MaxEpochs, l \in Rates :
          FitBegin(1, X, y, e, l) /\ UNCHANGED <<xvars, prior>>
    \/ FitEpoch(1) /\ UNCHANGED <<xvars, prior>>
    \/ FitReturn(1) /\ UNCHANGED <<xvars, prior>>

Spec == Init /\ [][Next]_vars

\* ------------------------------------------------ two models side by side

\* lr = 0.5 (main) and lr = 0.1 (the default)
PairRates == { <<1, 2>>, <<1, 10>> }

PairMatrices == {X2x15, X2x14}

PairWeights == { <<>>, Full(15, 100) }

\* Whether m holds the parameters of a freshly created model.
Fresh(m) == weights[m] = Zeros(Size(weights[m])) /\ bias[m] = 0

\* model_a = LogisticRegressionModel(); model_b = LogisticRegressionModel()
InitPair == /\ NoUrl
            /\ weights = [m \in ModelIds |-> Zeros(15)]
            /\ bias = [m \in ModelIds |-> 0]
            /\ status = [m \in ModelIds |-> "created"]
            /\ fitX = [m \in ModelIds |-> <<>>]
            /\ fity = [m \in ModelIds |-> <<>>]
            /\ epochs = [m \in ModelIds |-> 0]
            /\ lr = [m \in ModelIds |-> <<0, 1>>]
            /\ iter = [m \in ModelIds |-> 0]
            /\ vec = <<>>
            /\ prob = -1
            /\ verdict = "none"
            /\ model_json = <<>>
            /\ prior = [m \in ModelIds |-> "none"]

NextPair ==
    \/ \E m \in ModelIds, w \in PairWeights, b \in GivenBias :
          /\ Construct(m, w, b)
          /\ prior' = [prior EXCEPT ![m] = "none"]
          /\ UNCHANGED xvars
    \/ \E m \in ModelIds, X \in PairMatrices, y \in Labels,
          e \in 0..MaxEpochs, l \in PairRates :
          /\ FitBegin(m, X, y, e, l)
          /\ prior' = [prior EXCEPT ![m] = IF Fresh(m) THEN "zero" ELSE "nonzero"]
          /\ UNCHANGED xvars
    \/ \E m \in ModelIds : FitEpoch(m) /\ UNCHANGED <<xvars, prior>>
    \/ \E m \in ModelIds : FitReturn(m) /\ UNCHANGED <<xvars, prior>>

SpecPair == InitPair /\ [][NextPair]_vars

\* ------------------------------------------------------------------ claims

\* v is a vector of 15 entries, each at least 0 and at most 1.
InRange(v) == /\ DOMAIN v = 0..14
              /\ \A i \in 0..14 : v[i] >= 0 /\ v[i] <= SCALE

\* C1: extract_features never fails, whatever the string, and returns 15
\* entries, each at least 0 and at most 1: its value is defined and in
\* range for every URL a caller holds, and so is the vector it returned.
C1_ExtractTotalInRange ==
    IF xstatus = "returned" THEN InRange(features)
    ELSE InRange(extract_features(url))

\* C1 witness: a malformed URL whose host has more than 6 dots was
\* extracted, and its subdomain count is capped at 1.
C1_Witness ==
    /\ xstatus = "returned"
    /\ ~StartsWith(url, HTTP)
    /\ Count(host(url), ".") > 6
    /\ features[3] = SCALE

\* u with one leading "https://" or "http://" removed.
LeadingStripped(u) == IF StartsWith(u, HTTPS) THEN Drop(u, Len(HTTPS))
                      ELSE IF StartsWith(u, HTTP) THEN Drop(u, Len(HTTP))
                      ELSE u

\* The index of the first "/" or "?" of s, Len(s) if there is none.
FirstSeparator(s) ==
    IF \E i \in 1..Len(s) : s[i] \in {"/", "?"}
    THEN (CHOOSE i \in 1..Len(s) :
             s[i] \in {"/", "?"} /\ \A j \in 1..(i - 1) : s[j] \notin {"/", "?"}) - 1
    ELSE Len(s)

\* C2: clean_url is url with only one leading "https://" or "http://"
\* removed, host is clean_url up to the first "/" or "?", and
\* path_and_query is the rest, so an inner "http://" stays in it.
C2_OnlyLeadingPrefixRemoved ==
    xstatus = "returned" =>
       /\ clean_url(url) = LeadingStripped(url)
       /\ host(url) = Take(LeadingStripped(url), FirstSeparator(LeadingStripped(url)))
       /\ path_and_query(url) =
             Drop(LeadingStripped(url), FirstSeparator(LeadingStripped(url)))

\* The last fit call on m had a 2-D X of 15 columns and one label per row.
WellFormed(m) == /\ Len(Shape(fitX[m])) = 2
                 /\ Shape(fitX[m])[1] = Size(fity[m])
                 /\ Shape(fitX[m])[2] = 15

\* C3: fit fails, and does not complete, whenever X and y differ in their
\* number of rows or a row of X does not have 15 entries.
C3_FitRejectsMismatch ==
    \A m \in ModelIds : status[m] = "fitted" => WellFormed(m)

\* C4: a model's weight vector always has exactly 15 entries.
C4_WeightsLength15 ==
    \A m \in ModelIds : status[m] # "none" => Size(weights[m]) = 15

\* fit got past X.shape on m and has ended.
Ended(m) == status[m] \in {"fitted", "raised"}

SameCall(a, b) == /\ fitX[a] = fitX[b]
                  /\ fity[a] = fity[b]
                  /\ epochs[a] = epochs[b]
                  /\ lr[a] = lr[b]

\* C5: two models whose last fit calls had the same X, y, epochs and lr
\* hold the same weights and bias, whatever they held before.
C5_FitHistoryIndependent ==
    \A a, b \in ModelIds :
       (Ended(a) /\ Ended(b) /\ SameCall(a, b)) =>
          /\ weights[a] = weights[b]
          /\ bias[a] = bias[b]
          /\ status[a] = status[b]

\* C5 witness: model 1 was fresh and model 2 was not when the same fit
\* call, of at least one epoch, was made on each, and both calls returned.
C5_Witness ==
    /\ status[1] = "fitted"
    /\ status[2] = "fitted"
    /\ SameCall(1, 2)
    /\ epochs[1] >= 1
    /\ prior[1] = "zero"
    /\ prior[2] = "nonzero"

\* The error of sample i at (w, b): sigmoid(X[i] . w + b) - y[i].
RefError(X, y, w, b, i) == sigmoid(Dot(X.data[i], w) + b * SCALE) - MICRO * y[i]

\* The errors of samples 0..n-1 at (w, b), as an array.
RECURSIVE RefErrors(_, _, _, _, _)
RefErrors(X, y, w, b, n) ==
    IF n = 0 THEN <<>>
    ELSE RefErrors(X, y, w, b, n - 1) @@ ((n - 1) :> RefError(X, y, w, b, n - 1))

\* One simultaneous full-batch update of (w, b): with err the errors of all
\* samples at (w, b), weight j moves by lr times the mean of X[i][j] * err[i]
\* and the bias by lr times the mean of err[i].
RefUpdate(X, y, w, b, l) ==
    LET n == Size(y)
        err == RefErrors(X, y, w, b, n)
    IN [weights |-> [j \in 0..14 |->
                       w[j] - Times(l, RDiv(SumN([i \in DOMAIN y |->
                                                    MulDiv(err[i], X.data[i][j], SCALE)], n),
                                            n))],
        bias |-> b - Times(l, RDiv(SumN(err, n), n))]

\* The parameters after k simultaneous updates from all-zero parameters.
RECURSIVE RefFit(_, _, _, _)
RefFit(X, y, k, l) ==
    IF k = 0 THEN [weights |-> Zeros(15), bias |-> 0]
    ELSE LET p == RefFit(X, y, k - 1, l)
         IN RefUpdate(X, y, p.weights, p.bias, l)

\* C6: on well-formed inputs fit does not fail, makes exactly `epochs`
\* updates and returns, and after k updates the parameters are those of k
\* simultaneous full-batch updates from zero: both gradients of an
\* iteration are taken at the parameters the iteration started with.
C6_ExactlyEpochsUpdates ==
    \A m \in ModelIds :
       (status[m] \in {"fitting", "fitted", "raised"} /\ WellFormed(m)) =>
          /\ status[m] # "raised"
          /\ iter[m] <= epochs[m]
          /\ status[m] = "fitted" => iter[m] = epochs[m]
          /\ [weights |-> weights[m], bias |-> bias[m]]
                = RefFit(fitX[m], fity[m], iter[m], lr[m])

\* C6 witness: a well-formed fit of at least two epochs has returned, and
\* its bias has moved.
C6_Witness ==
    /\ status[1] = "fitted"
    /\ WellFormed(1)
    /\ epochs[1] >= 2
    /\ iter[1] = epochs[1]
    /\ bias[1] # 0

\* C7: predict changes neither the model's weights and bias nor the vector
\* it is passed, nor anything else the other operations read.
C7_PredictPure ==
    [][\A m \in ModelIds :
          Predict(m) => UNCHANGED <<weights, bias, vec, status, framevars, model_json>>]_vars

\* C7 witness: predict has returned a probability from a model whose
\* parameters are not all zero.
C7_Witness ==
    /\ verdict \in {"SAFE", "PHISHING"}
    /\ Size(vec) = 15
    /\ ~Fresh(1)

\* C8: a model with 15 zero weights and a zero bias predicts exactly 0.5
\* for every 15-entry vector, which the caller's rule decides as benign.
C8_ZeroModelPredictsHalf ==
    [][\A m \in ModelIds :
          (Predict(m) /\ weights[m] = Zeros(15) /\ bias[m] = 0 /\ Size(vec) = 15) =>
             (2 * prob' = MICRO /\ verdict' = "SAFE")]_vars

\* C8 witness: a zero model has scored a vector that is not all zero.
C8_Witness ==
    /\ verdict = "SAFE"
    /\ 2 * prob = MICRO
    /\ weights[1] = Zeros(15)
    /\ bias[1] = 0
    /\ Size(vec) = 15
    /\ vec # Zeros(15)

\* Some step of a fit call on m.
FitStep(m) ==
    \/ \E X \in Matrices, y \in Labels, e \in 0..MaxEpochs, l \in Rates :
          FitBegin(m, X, y, e, l)
    \/ FitEpoch(m)
    \/ FitReturn(m)

\* C9: the record to_json returns holds the model's 15 weights in index
\* order and its bias as they are at the call, and no later fit changes
\* a record already returned.
C9_ExportSnapshot ==
    [][\A m \in ModelIds :
          /\ ToJson(m) =>
                /\ Len(model_json'[1].weights) = 15
                /\ \A i \in 0..14 : model_json'[1].weights[i + 1] = weights[m][i]
                /\ model_json'[1].bias = bias[m]
          /\ FitStep(m) => model_json' = model_json]_vars

\* s is four groups of 1 to 3 decimal digits (Unicode category Nd) joined
\* by single dots.
FourGroups(s) ==
    \E a, b, c, d \in 1..3 :
       /\ Len(s) = a + b + c + d + 3
       /\ \A i \in 1..Len(s) :
             IF i \in {a + 1, a + b + 2, a + b + c + 3}
             THEN s[i] = "."
             ELSE s[i] \in DecimalDigits

\* h with a trailing ":port" (a last ":" followed by digits only) removed.
PortStripped(h) ==
    IF HasChar(h, ":") /\ IsDigit(SplitLast(h, ":")) THEN Take(h, RFind(h, ":")) ELSE h

\* The text of h before its first ":".
BeforeColon(h) == IF HasChar(h, ":") THEN Take(h, Find(h, ":")) ELSE h

\* s without one final newline.
ChompNewline(s) == IF s # <<>> /\ s[Len(s)] = "\n" THEN Take(s, Len(s) - 1) ELSE s

\* C10, as claimed: feature 5 is 1.0 exactly when the host, a trailing
\* ":port" stripped, is four groups of 1 to 3 decimal digits joined by
\* dots.
C10_IPv4AfterPortStripped ==
    xstatus = "returned" =>
       /\ features[5] \in {0, SCALE}
       /\ features[5] = SCALE <=> FourGroups(PortStripped(host(url)))

\* C10, amended: feature 5 is 1.0 exactly when the text of the host before
\* its first ":", one final newline aside, is four groups of 1 to 3
\* decimal digits (ASCII or any other of Unicode category Nd) joined by
\* single dots, and 0.0 otherwise.
C10_IPv4BeforeFirstColon ==
    xstatus = "returned" =>
       /\ features[5] \in {0, SCALE}
       /\ features[5] = SCALE <=> FourGroups(ChompNewline(BeforeColon(host(url))))

\* C10 witness: feature 5 is 1.0 for a host whose text after the first
\* ":" is not a port.
C10_Witness ==
    /\ xstatus = "returned"
    /\ features[5] = SCALE
    /\ HasChar(host(url), ":")
    /\ ~IsDigit(Drop(host(url), Find(host(url), ":") + 1))

====
